---- MODULE Spec2Model ----
(***************************************************************************)
(* fastx-statistics: per-sequence statistics (SequenceStatistics::new),    *)
(* the Nx scan (nx), the coverage thresholds of print_nx and the record    *)
(* pipeline of basic_statistics, modelled from src/src/main.rs.            *)
(*                                                                         *)
(* Four specifications share the variables; each one drives its own group  *)
(* and leaves the other groups at their idle values:                       *)
(*   SpecSeq  - one call of SequenceStatistics::new, byte by byte          *)
(*   SpecNx   - one call of nx, element by element                         *)
(*   SpecCov  - the three threshold closures of print_nx on a usize sum    *)
(*   Spec     - a whole run: command line, read loop, report               *)
(***************************************************************************)
EXTENDS Integers, Sequences, FiniteSets, TLC

VARIABLES
    \* ---- SequenceStatistics::new ----
    sequence,      \* the argument, a sequence of bytes
    seq_pc,        \* "idle" | "call" | "loop" | "done"
    seq_i,         \* position of the iterator of the for loop (1-based)
    scan,          \* the locals len, hoco_len, last_byte, ns, hoco_ns
    stats,         \* the returned SequenceStatistics
    \* ---- nx ----
    lengths,       \* the argument lengths
    sum,           \* the argument sum
    required_covered_bases,
    nx_st,         \* the loop of nx: position, running sum, pc, returned value
    \* ---- the closures of print_nx ----
    cov_l,         \* the total length handed to the closure
    cov_p,         \* the additional percentile (a u8)
    cov_kind,      \* "none" | "n50" | "n75" | "additional"
    cov_res,       \* the closure's value, or Abort
    \* ---- basic_statistics ----
    pc,            \* position of the run
    cli_percentiles, \* --additional-percentile arguments as typed
    additional_percentiles,
    filter_ids,
    consumed,      \* the records the reader has yielded so far
    sequence_lengths,
    sequence_hoco_lengths,
    sequence_lengths_without_ns,
    sequence_hoco_lengths_without_ns,
    count,
    out,           \* the lines printed so far
    calls          \* the nx / first / last calls made so far, with their slice

seqVars  == <<sequence, seq_pc, seq_i, scan, stats>>
nxVars   == <<lengths, sum, required_covered_bases, nx_st>>
covVars  == <<cov_l, cov_p, cov_kind, cov_res>>
pipeVars == <<pc, cli_percentiles, additional_percentiles, filter_ids, consumed,
              sequence_lengths, sequence_hoco_lengths,
              sequence_lengths_without_ns, sequence_hoco_lengths_without_ns,
              count, out, calls>>
vars     == <<seqVars, nxVars, covVars, pipeVars>>

(***************************************************************************)
(* Bounds                                                                  *)
(***************************************************************************)
MaxSeqLen == 4
MaxDistLen == 5
MaxLength == 5
MaxRecords == 3
UsizeBits == 6

(***************************************************************************)
(* Bytes                                                                   *)
(***************************************************************************)
LineBreak == 10
UpperN == 78
LowerN == 110
ByteA == 65
ByteT == 84

Bytes == {LineBreak, ByteA, ByteT, UpperN, LowerN}

RECURSIVE Pow2(_)
Pow2(n) == IF n = 0 THEN 1 ELSE 2 * Pow2(n - 1)

RECURSIVE SumSeq(_)
SumSeq(s) == IF s = <<>> THEN 0 ELSE Head(s) + SumSeq(Tail(s))

SeqsUpTo(S, n) == UNION {[1..k -> S] : k \in 0..n}

(***************************************************************************)
(* SequenceStatistics::new                                                 *)
(***************************************************************************)
is_n(b) == b = LowerN \/ b = UpperN

ZeroStatistics ==
    [len |-> 0, hoco_len |-> 0, len_without_ns |-> 0, hoco_len_without_ns |-> 0]

IdleScan == [len |-> 0, hoco_len |-> 0, last_byte |-> 0, ns |-> 0, hoco_ns |-> 0]

\* lines 235-239: the locals before the loop; the first byte is taken as it is
ScanInit(s) ==
    LET first == s[1]
        n == IF is_n(first) THEN 1 ELSE 0
    IN [len |-> 1, hoco_len |-> 1, last_byte |-> first, ns |-> n, hoco_ns |-> n]

\* the loop body with a slip in it: hoco_ns counted per masked byte instead
\* of per masked run
ScanByteCountsHocoNsPerByte(sc, byte) ==
    IF byte = LineBreak THEN sc
    ELSE LET nsN == IF is_n(byte) THEN sc.ns + 1 ELSE sc.ns
             hnN == IF is_n(byte) THEN sc.hoco_ns + 1 ELSE sc.hoco_ns
         IN IF byte # sc.last_byte
            THEN [len |-> sc.len + 1, hoco_len |-> sc.hoco_len + 1,
                  last_byte |-> byte, ns |-> nsN, hoco_ns |-> hnN]
            ELSE [sc EXCEPT !.len = sc.len + 1, !.ns = nsN, !.hoco_ns = hnN]

\* lines 242-258: the body of the for loop on one byte
ScanByte(sc, byte) ==
    IF byte = LineBreak THEN sc
    ELSE LET nsN == IF is_n(byte) THEN sc.ns + 1 ELSE sc.ns
         IN IF byte # sc.last_byte
            THEN [len |-> sc.len + 1, hoco_len |-> sc.hoco_len + 1,
                  last_byte |-> byte, ns |-> nsN,
                  hoco_ns |-> IF is_n(byte) THEN sc.hoco_ns + 1 ELSE sc.hoco_ns]
            ELSE [sc EXCEPT !.len = sc.len + 1, !.ns = nsN]

\* lines 261-266: usize subtraction; a negative value here stands for the
\* underflow (a panic in a debug build, a wrapped value in a release build)
ScanResult(sc) ==
    [len |-> sc.len, hoco_len |-> sc.hoco_len,
     len_without_ns |-> sc.len - sc.ns,
     hoco_len_without_ns |-> sc.hoco_len - sc.hoco_ns]

RECURSIVE ScanFrom(_, _, _)
ScanFrom(sc, s, i) ==
    IF i > Len(s) THEN sc ELSE ScanFrom(ScanByte(sc, s[i]), s, i + 1)

\* the whole function, as basic_statistics calls it
SequenceStatisticsNew(s) ==
    IF s = <<>> THEN ZeroStatistics
    ELSE ScanResult(ScanFrom(ScanInit(s), s, 2))

\* sequences of the unit test (line 276) and of the documented example
SampleSequences ==
    { <<65, 65, 65, 78, 78, 78, 84, 84>>,
      <<65, 67, 71, 67, 84, 84, 65, 84, 71>>,
      <<71, 67, 67, 10, 78, 67, 67, 84>> }

SeqInputs == SeqsUpTo(Bytes, MaxSeqLen) \cup SampleSequences

SeqIdle ==
    /\ sequence = <<>>
    /\ seq_pc = "idle"
    /\ seq_i = 0
    /\ scan = IdleScan
    /\ stats = ZeroStatistics

SeqInit ==
    /\ sequence \in SeqInputs
    /\ seq_pc = "call"
    /\ seq_i = 0
    /\ scan = IdleScan
    /\ stats = ZeroStatistics

\* lines 225-239
SeqNew ==
    /\ seq_pc = "call"
    /\ IF sequence = <<>>
       THEN /\ stats' = ZeroStatistics
            /\ seq_pc' = "done"
            /\ UNCHANGED <<scan, seq_i>>
       ELSE /\ scan' = ScanInit(sequence)
            /\ seq_i' = 2
            /\ seq_pc' = "loop"
            /\ UNCHANGED stats
    /\ UNCHANGED sequence
    /\ UNCHANGED <<nxVars, covVars, pipeVars>>

\* lines 241-259, one iteration
SeqLoop ==
    /\ seq_pc = "loop"
    /\ seq_i <= Len(sequence)
    /\ scan' = ScanByte(scan, sequence[seq_i])
    /\ seq_i' = seq_i + 1
    /\ UNCHANGED <<sequence, seq_pc, stats>>
    /\ UNCHANGED <<nxVars, covVars, pipeVars>>

\* lines 261-266
SeqReturn ==
    /\ seq_pc = "loop"
    /\ seq_i > Len(sequence)
    /\ stats' = ScanResult(scan)
    /\ seq_pc' = "done"
    /\ UNCHANGED <<sequence, seq_i, scan>>
    /\ UNCHANGED <<nxVars, covVars, pipeVars>>

(***************************************************************************)
(* nx                                                                      *)
(***************************************************************************)
IdleNx == [i |-> 0, sum |-> 0, pc |-> "idle", ret |-> 0]

\* line 205: let mut sum = 0, the iterator at the first element
NxStart == [i |-> 1, sum |-> 0, pc |-> "scan", ret |-> 0]

\* the loop with a slip in it: a strict comparison; the test made before the
\* element is added
NxLoopStepStrict(ls, req, st) ==
    IF st.i > Len(ls) THEN [st EXCEPT !.pc = "unreachable"]
    ELSE LET s == st.sum + ls[st.i]
         IN IF s > req
            THEN [i |-> st.i, sum |-> s, pc |-> "returned", ret |-> ls[st.i]]
            ELSE [st EXCEPT !.i = st.i + 1, !.sum = s]

NxLoopStepTestFirst(ls, req, st) ==
    IF st.i > Len(ls) THEN [st EXCEPT !.pc = "unreachable"]
    ELSE IF st.sum >= req
         THEN [i |-> st.i, sum |-> st.sum, pc |-> "returned", ret |-> ls[st.i]]
         ELSE [st EXCEPT !.i = st.i + 1, !.sum = st.sum + ls[st.i]]

\* lines 206-213: one iteration of the for loop, or the fall through to
\* unreachable!() once the iterator is exhausted
NxLoopStep(ls, req, st) ==
    IF st.i > Len(ls) THEN [st EXCEPT !.pc = "unreachable"]
    ELSE LET s == st.sum + ls[st.i]
         IN IF s >= req
            THEN [i |-> st.i, sum |-> s, pc |-> "returned", ret |-> ls[st.i]]
            ELSE [st EXCEPT !.i = st.i + 1, !.sum = s]

RECURSIVE NxRun(_, _, _)
NxRun(ls, req, st) ==
    IF st.pc # "scan" THEN st ELSE NxRun(ls, req, NxLoopStep(ls, req, st))

\* the whole function with the closure's value already computed (line 202).
\* The debug assertions of lines 199-203 exist in debug builds only; when
\* req > total a debug build panics at line 203 and a release build at line
\* 213, so pc = "unreachable" stands for the panic of either build.
nx(ls, total, req) == NxRun(ls, req, NxStart)

IsSortedDesc(ls) == \A k \in 1..(Len(ls) - 1) : ls[k] >= ls[k + 1]

Distributions ==
    {ls \in SeqsUpTo(0..MaxLength, MaxDistLen) : ls # <<>> /\ IsSortedDesc(ls)}

NxIdle ==
    /\ lengths = <<>>
    /\ sum = 0
    /\ required_covered_bases = 0
    /\ nx_st = IdleNx

\* the preconditions of lines 199-203 hold of every call
NxInit ==
    /\ lengths \in Distributions
    /\ sum = SumSeq(lengths)
    /\ required_covered_bases \in 0..sum
    /\ nx_st = [IdleNx EXCEPT !.pc = "call"]

\* lines 202-205
NxEnter ==
    /\ nx_st.pc = "call"
    /\ nx_st' = NxStart
    /\ UNCHANGED <<lengths, sum, required_covered_bases>>
    /\ UNCHANGED <<seqVars, covVars, pipeVars>>

\* lines 206-213
NxIterate ==
    /\ nx_st.pc = "scan"
    /\ nx_st' = NxLoopStep(lengths, required_covered_bases, nx_st)
    /\ UNCHANGED <<lengths, sum, required_covered_bases>>
    /\ UNCHANGED <<seqVars, covVars, pipeVars>>

(***************************************************************************)
(* The closures of print_nx: usize is UsizeBits wide                       *)
(***************************************************************************)
U8Max == 255
U8Bits == 8
UsizeModulus == Pow2(UsizeBits)
\* u128 is at least 8 bits wider than usize, which is all that the product of
\* a usize and a u8 needs
U128Modulus == Pow2(UsizeBits + U8Bits)

Value(v) == [abort |-> FALSE, v |-> v]
Abort == [abort |-> TRUE, v |-> 0]

\* line 172: |l| l / 2
Percentile50(l) == Value(l \div 2)

\* lines 173-175: |l| l.checked_mul(3).unwrap() / 4
Percentile75(l) ==
    IF l * 3 >= UsizeModulus THEN Abort ELSE Value((l * 3) \div 4)

\* the closure with a slip in it: the division made before the product
AdditionalPercentileDivFirst(l, p) == Value(((l \div 100) * p) % UsizeModulus)

\* lines 182-184: |l| ((l as u128) * u128::from(p) / 100) as usize
AdditionalPercentile(l, p) ==
    Value((((l * p) % U128Modulus) \div 100) % UsizeModulus)

CovIdle ==
    /\ cov_l = 0
    /\ cov_p = 0
    /\ cov_kind = "idle"
    /\ cov_res = Value(0)

CovInit ==
    /\ cov_l \in 0..(UsizeModulus - 1)
    /\ cov_p \in 0..U8Max
    /\ cov_kind = "none"
    /\ cov_res = Value(0)

CovN50 ==
    /\ cov_kind = "none"
    /\ cov_kind' = "n50"
    /\ cov_res' = Percentile50(cov_l)
    /\ UNCHANGED <<cov_l, cov_p>>
    /\ UNCHANGED <<seqVars, nxVars, pipeVars>>

CovN75 ==
    /\ cov_kind = "none"
    /\ cov_kind' = "n75"
    /\ cov_res' = Percentile75(cov_l)
    /\ UNCHANGED <<cov_l, cov_p>>
    /\ UNCHANGED <<seqVars, nxVars, pipeVars>>

CovAdditional ==
    /\ cov_kind = "none"
    /\ cov_kind' = "additional"
    /\ cov_res' = AdditionalPercentile(cov_l, cov_p)
    /\ UNCHANGED <<cov_l, cov_p>>
    /\ UNCHANGED <<seqVars, nxVars, pipeVars>>

(***************************************************************************)
(* basic_statistics: the command line, the read loop and the report        *)
(***************************************************************************)
RECURSIVE InsertDesc(_, _)
InsertDesc(x, s) ==
    IF s = <<>> THEN <<x>>
    ELSE IF x >= Head(s) THEN <<x>> \o s
    ELSE <<Head(s)>> \o InsertDesc(x, Tail(s))

\* lines 148-149: sort_unstable_by(|a, b| b.cmp(a))
RECURSIVE SortDesc(_)
SortDesc(s) == IF s = <<>> THEN <<>> ELSE InsertDesc(Head(s), SortDesc(Tail(s)))

Contains(s, x) == \E k \in 1..Len(s) : s[k] = x

\* the filter test with a slip in it: only the first filter id is compared
IsFilteredFirstOnly(filter, id) == filter # <<>> /\ filter[1] = id

\* lines 96-101: filter_ids.contains(&record.id()?.to_owned())
IsFiltered(filter, id) == Contains(filter, id)

\* the guard of line 124 left out
AfterCountAlwaysStats(n) == "stats"

\* line 124: if count > 0
AfterCount(n) == IF n > 0 THEN "stats" ELSE "ok"

\* line 26: every --additional-percentile argument is parsed as a u8
ParsesAsU8(v) == v \in 0..U8Max

Line(prefix, what, suffix, v) ==
    [prefix |-> prefix, what |-> what, suffix |-> suffix, v |-> v]

Call(fn, ls) == [fn |-> fn, slice |-> ls]

\* lines 181-186: the loop over the additional percentiles, from the k-th on
RECURSIVE AdditionalLoop(_, _, _, _, _, _)
AdditionalLoop(ls, length, ap, prefix, suffix, k) ==
    IF k > Len(ap) THEN [out |-> <<>>, panicked |-> FALSE]
    ELSE LET r == nx(ls, length, AdditionalPercentile(length, ap[k]).v)
         IN IF r.pc # "returned" THEN [out |-> <<>>, panicked |-> TRUE]
            ELSE LET rest == AdditionalLoop(ls, length, ap, prefix, suffix, k + 1)
                 IN [out |-> <<Line(prefix, <<"N", ap[k]>>, suffix, r.ret)>> \o rest.out,
                     panicked |-> rest.panicked]

\* lines 165-196
print_nx(ls, length, ap, prefix, suffix) ==
    LET t75 == Percentile75(length)
        n50 == nx(ls, length, Percentile50(length).v)
        n75 == nx(ls, length, t75.v)
        add == AdditionalLoop(ls, length, ap, prefix, suffix, 1)
        head == << Line(prefix, "total length", suffix, length),
                   Line(prefix, "N50", suffix, n50.ret),
                   Line(prefix, "N75", suffix, n75.ret) >>
    IN IF n50.pc # "returned" \/ t75.abort \/ n75.pc # "returned"
       THEN [out |-> <<>>, calls |-> {Call("nx", ls)}, panicked |-> TRUE]
       ELSE IF add.panicked
       THEN [out |-> head \o add.out, calls |-> {Call("nx", ls)}, panicked |-> TRUE]
       ELSE IF ls = <<>>
       THEN [out |-> head \o add.out, calls |-> {Call("nx", ls), Call("first", ls)},
             panicked |-> TRUE]
       ELSE [out |-> head \o add.out
                       \o << Line(prefix, "max len", suffix, ls[1]),
                             Line(prefix, "min len", suffix, ls[Len(ls)]) >>,
             calls |-> {Call("nx", ls), Call("first", ls), Call("last", ls)},
             panicked |-> FALSE]

\* lines 142-163
print_sequence_statistics(sl, slw, ap, prefix) ==
    LET sorted == SortDesc(sl)
        sorted_without_ns == SortDesc(slw)
        length == SumSeq(sorted)
        length_without_ns == SumSeq(sorted_without_ns)
        first == print_nx(sorted, length, ap, prefix, "")
        second == print_nx(sorted_without_ns, length_without_ns, ap, prefix,
                           " without Ns")
        nsLine == <<Line(prefix, "# Ns", "", length - length_without_ns)>>
    IN IF first.panicked
       THEN [sl |-> sorted, slw |-> sorted_without_ns, out |-> nsLine \o first.out,
             calls |-> first.calls, panicked |-> TRUE]
       ELSE [sl |-> sorted, slw |-> sorted_without_ns,
             out |-> nsLine \o first.out \o second.out,
             calls |-> first.calls \cup second.calls,
             panicked |-> second.panicked]

Ids == {"a", "b", "c"}

\* the bodies a record can carry: an empty one and one with a masked base
RecordSeqs == { <<>>, <<ByteA, UpperN>> }

Records == [id : Ids, seq : RecordSeqs]

\* --filter-id arguments: none, one, several, a duplicate
FilterArgs == { <<>>, <<"b">>, <<"a", "b">>, <<"b", "b">>, <<"a", "b", "c">> }

\* --additional-percentile arguments as typed on the command line
PercentileArgs == { <<>>, <<90>>, <<0, 100>>, <<101>>, <<200>>, <<256>>, <<-1>> }

PipeIdle ==
    /\ pc = "idle"
    /\ cli_percentiles = <<>>
    /\ additional_percentiles = <<>>
    /\ filter_ids = <<>>
    /\ consumed = <<>>
    /\ sequence_lengths = <<>>
    /\ sequence_hoco_lengths = <<>>
    /\ sequence_lengths_without_ns = <<>>
    /\ sequence_hoco_lengths_without_ns = <<>>
    /\ count = 0
    /\ out = <<>>
    /\ calls = {}

PipeInit ==
    /\ pc = "cli"
    /\ cli_percentiles \in PercentileArgs
    /\ additional_percentiles = <<>>
    /\ filter_ids \in FilterArgs
    /\ consumed = <<>>
    /\ sequence_lengths = <<>>
    /\ sequence_hoco_lengths = <<>>
    /\ sequence_lengths_without_ns = <<>>
    /\ sequence_hoco_lengths_without_ns = <<>>
    /\ count = 0
    /\ out = <<>>
    /\ calls = {}

distVars == <<sequence_lengths, sequence_hoco_lengths,
              sequence_lengths_without_ns, sequence_hoco_lengths_without_ns>>

\* line 46: Cli::parse() ends the process on an argument that is no u8
ParseCli ==
    /\ pc = "cli"
    /\ IF \A k \in 1..Len(cli_percentiles) : ParsesAsU8(cli_percentiles[k])
       THEN /\ additional_percentiles' = cli_percentiles
            /\ pc' = "read"
       ELSE /\ pc' = "cli_error"
            /\ UNCHANGED additional_percentiles
    /\ UNCHANGED <<cli_percentiles, filter_ids, consumed, distVars, count, out, calls>>
    /\ UNCHANGED <<seqVars, nxVars, covVars>>

\* lines 94-117: one iteration of the read loop on a well-formed record
ReadRecord(record) ==
    /\ pc = "read"
    /\ Len(consumed) < MaxRecords
    /\ consumed' = Append(consumed, record)
    /\ IF IsFiltered(filter_ids, record.id)
       THEN UNCHANGED distVars
       ELSE LET sequence_statistics == SequenceStatisticsNew(record.seq)
            IN /\ sequence_lengths' =
                     Append(sequence_lengths, sequence_statistics.len)
               /\ sequence_hoco_lengths' =
                     Append(sequence_hoco_lengths, sequence_statistics.hoco_len)
               /\ sequence_lengths_without_ns' =
                     Append(sequence_lengths_without_ns,
                            sequence_statistics.len_without_ns)
               /\ sequence_hoco_lengths_without_ns' =
                     Append(sequence_hoco_lengths_without_ns,
                            sequence_statistics.hoco_len_without_ns)
    /\ UNCHANGED <<pc, cli_percentiles, additional_percentiles, filter_ids,
                   count, out, calls>>
    /\ UNCHANGED <<seqVars, nxVars, covVars>>

\* lines 95 and 99: a record that does not parse, or an id that is not utf-8,
\* ends the run with Err
ReadError ==
    /\ pc = "read"
    /\ Len(consumed) < MaxRecords
    /\ pc' = "failed"
    /\ UNCHANGED <<cli_percentiles, additional_percentiles, filter_ids, consumed,
                   distVars, count, out, calls>>
    /\ UNCHANGED <<seqVars, nxVars, covVars>>

\* lines 119-124 (and 139 when count = 0): the reader is exhausted
EndOfInput ==
    /\ pc = "read"
    /\ count' = Len(sequence_lengths)
    /\ out' = Append(out, Line("", "# records", "", count'))
    /\ pc' = AfterCount(count')
    /\ UNCHANGED <<cli_percentiles, additional_percentiles, filter_ids, consumed,
                   distVars, calls>>
    /\ UNCHANGED <<seqVars, nxVars, covVars>>

\* lines 125-130
PrintRaw ==
    /\ pc = "stats"
    /\ \E r \in {print_sequence_statistics(sequence_lengths,
                    sequence_lengths_without_ns, additional_percentiles, "")} :
          /\ sequence_lengths' = r.sl
          /\ sequence_lengths_without_ns' = r.slw
          /\ out' = out \o r.out
          /\ calls' = calls \cup r.calls
          /\ pc' = IF r.panicked THEN "panicked" ELSE "stats_hoco"
    /\ UNCHANGED <<cli_percentiles, additional_percentiles, filter_ids, consumed,
                   sequence_hoco_lengths, sequence_hoco_lengths_without_ns, count>>
    /\ UNCHANGED <<seqVars, nxVars, covVars>>

\* lines 131-139
PrintHoco ==
    /\ pc = "stats_hoco"
    /\ \E r \in {print_sequence_statistics(sequence_hoco_lengths,
                    sequence_hoco_lengths_without_ns, additional_percentiles,
                    "hoco ")} :
          /\ sequence_hoco_lengths' = r.sl
          /\ sequence_hoco_lengths_without_ns' = r.slw
          /\ out' = out \o r.out
          /\ calls' = calls \cup r.calls
          /\ pc' = IF r.panicked THEN "panicked" ELSE "ok"
    /\ UNCHANGED <<cli_percentiles, additional_percentiles, filter_ids, consumed,
                   sequence_lengths, sequence_lengths_without_ns, count>>
    /\ UNCHANGED <<seqVars, nxVars, covVars>>

(***************************************************************************)
(* Specifications                                                          *)
(***************************************************************************)
InitSeq == SeqInit /\ NxIdle /\ CovIdle /\ PipeIdle
NextSeq == SeqNew \/ SeqLoop \/ SeqReturn
SpecSeq == InitSeq /\ [][NextSeq]_vars

InitNx == SeqIdle /\ NxInit /\ CovIdle /\ PipeIdle
NextNx == NxEnter \/ NxIterate
SpecNx == InitNx /\ [][NextNx]_vars

InitCov == SeqIdle /\ NxIdle /\ CovInit /\ PipeIdle
NextCov == CovN50 \/ CovN75 \/ CovAdditional
SpecCov == InitCov /\ [][NextCov]_vars

Init == SeqIdle /\ NxIdle /\ CovIdle /\ PipeInit
Next ==
    \/ ParseCli
    \/ \E record \in Records : ReadRecord(record)
    \/ ReadError
    \/ EndOfInput
    \/ PrintRaw
    \/ PrintHoco
Spec == Init /\ [][Next]_vars

(***************************************************************************)
(* Properties                                                              *)
(***************************************************************************)
NotLineBreak(b) == b # LineBreak
StripBreaks(s) == SelectSeq(s, NotLineBreak)
CountMasked(s) == Len(SelectSeq(s, is_n))
RunStarts(s) == {k \in 1..Len(s) : k = 1 \/ s[k] # s[k - 1]}
Runs(s) == Cardinality(RunStarts(s))
MaskedRuns(s) == Cardinality({k \in RunStarts(s) : is_n(s[k])})

Prefix(ls, k) == SumSeq(SubSeq(ls, 1, k))
Elements(ls) == {ls[k] : k \in 1..Len(ls)}
MaxOf(ls) == CHOOSE x \in Elements(ls) : \A y \in Elements(ls) : x >= y
MinOf(ls) == CHOOSE x \in Elements(ls) : \A y \in Elements(ls) : x <= y
RECURSIVE SumAtLeast(_, _)
SumAtLeast(ls, v) ==
    IF ls = <<>> THEN 0
    ELSE (IF Head(ls) >= v THEN Head(ls) ELSE 0) + SumAtLeast(Tail(ls), v)

NotExcluded(record) == ~Contains(filter_ids, record.id)
Survivors(cs) == SelectSeq(cs, NotExcluded)

\* C1: for a non-empty non-increasing distribution with its exact sum and a
\* threshold in 0..sum, nx returns the element at the smallest index whose
\* running total reaches the threshold, and the end of the scan
\* (unreachable!()) is never entered.
C1_NxFirstReaching ==
    /\ nx_st.pc # "unreachable"
    /\ nx_st.pc = "returned" =>
         /\ nx_st.i \in 1..Len(lengths)
         /\ Prefix(lengths, nx_st.i) >= required_covered_bases
         /\ \A j \in 1..(nx_st.i - 1) : Prefix(lengths, j) < required_covered_bases
         /\ nx_st.ret = lengths[nx_st.i]

C1_Witness ==
    /\ nx_st.pc = "returned"
    /\ nx_st.i = 3
    /\ required_covered_bases > 0
    /\ required_covered_bases < sum

\* C2: as claimed: when SequenceStatistics::new has returned, len is the number
\* of bytes that are no line break and len_without_ns the number of those
\* that are neither 'N' nor 'n', wherever the line breaks stand.
C2_LineBreaksNeverCounted ==
    seq_pc = "done" =>
        LET s == StripBreaks(sequence)
        IN /\ stats.len = Len(s)
           /\ stats.len_without_ns = Len(s) - CountMasked(s)

\* C3: as claimed: hoco_len is the number of maximal runs of equal bytes of the
\* sequence with its line breaks removed, hoco_len_without_ns is hoco_len
\* less the runs of 'N' or of 'n', and "AAANNNTT" gives 8, 3, 5, 2.
C3_HocoCountsRuns ==
    seq_pc = "done" =>
        LET s == StripBreaks(sequence)
        IN /\ stats.hoco_len = Runs(s)
           /\ stats.hoco_len_without_ns = Runs(s) - MaskedRuns(s)
           /\ sequence = <<65, 65, 65, 78, 78, 78, 84, 84>> =>
                 stats = [len |-> 8, hoco_len |-> 3, len_without_ns |-> 5,
                          hoco_len_without_ns |-> 2]

\* C4 as claimed: the N50 value v is in the distribution, the elements >= v
\* sum to at least S/2, and that sum less one element equal to v is below S/2.
C4_AsClaimed ==
    (nx_st.pc = "returned" /\ required_covered_bases = Percentile50(sum).v) =>
        /\ nx_st.ret \in Elements(lengths)
        /\ SumAtLeast(lengths, nx_st.ret) >= sum \div 2
        /\ SumAtLeast(lengths, nx_st.ret) - nx_st.ret < sum \div 2

\* C4 amended: the N50 value v is in the distribution, the elements >= v sum
\* to at least floor(S/2), and when floor(S/2) > 0 the running total of the
\* scan up to and including the returned element, less that element, is
\* below floor(S/2).
C4_N50Amended ==
    (nx_st.pc = "returned" /\ required_covered_bases = Percentile50(sum).v) =>
        /\ nx_st.ret \in Elements(lengths)
        /\ SumAtLeast(lengths, nx_st.ret) >= sum \div 2
        /\ sum \div 2 > 0 =>
              Prefix(lengths, nx_st.i) - nx_st.ret < sum \div 2

C4_Witness ==
    /\ nx_st.pc = "returned"
    /\ required_covered_bases = Percentile50(sum).v
    /\ required_covered_bases > 0
    /\ nx_st.i >= 2
    /\ nx_st.i < Len(lengths)
    /\ lengths[nx_st.i + 1] = nx_st.ret

\* C5: as claimed: for every usize sum and every percentile (50, 75, any p in
\* 0..100) the threshold is computed without abort or wraparound and is
\* floor(sum/2), floor(sum*3/4), floor(sum*p/100), each at most sum.
C5_ThresholdsNeverAbort ==
    /\ cov_kind = "n50" =>
         ~cov_res.abort /\ cov_res.v = cov_l \div 2 /\ cov_res.v <= cov_l
    /\ cov_kind = "n75" =>
         ~cov_res.abort /\ cov_res.v = (cov_l * 3) \div 4 /\ cov_res.v <= cov_l
    /\ (cov_kind = "additional" /\ cov_p <= 100) =>
         ~cov_res.abort /\ cov_res.v = (cov_l * cov_p) \div 100 /\ cov_res.v <= cov_l

\* C6: when the reader is exhausted and no record survived the filter, the
\* run ends Ok having printed the record count 0 and nothing else; and no
\* call of nx, first() or last() is ever made on an empty distribution.
C6_EmptyRunSucceeds ==
    /\ (pc \in {"stats", "stats_hoco", "ok", "panicked"}
          /\ Survivors(consumed) = <<>>) =>
         /\ pc = "ok"
         /\ count = 0
         /\ out = <<Line("", "# records", "", 0)>>
    /\ \A c \in calls : c.slice # <<>>

C6_Witness ==
    /\ pc = "ok"
    /\ consumed # <<>>
    /\ filter_ids # <<>>
    /\ Survivors(consumed) = <<>>

\* C7: as claimed: an additional percentile outside [0,100] is rejected when
\* the command line is read; the run never gets past it.
C7_OutOfRangeRejected ==
    (\E k \in 1..Len(cli_percentiles) : cli_percentiles[k] \notin 0..100) =>
        pc \in {"cli", "cli_error"}

\* C8: the four distributions have equal length, one entry per record read so
\* far whose id is not in the filter set; until they are sorted they hold the
\* statistics of those records in arrival order; and the count reported is
\* the number of surviving records.
C8_OneEntryPerSurvivor ==
    LET sv == Survivors(consumed)
        st == [k \in 1..Len(sv) |-> SequenceStatisticsNew(sv[k].seq)]
    IN /\ Len(sequence_lengths) = Len(sv)
       /\ Len(sequence_hoco_lengths) = Len(sv)
       /\ Len(sequence_lengths_without_ns) = Len(sv)
       /\ Len(sequence_hoco_lengths_without_ns) = Len(sv)
       /\ pc \in {"read", "stats"} =>
            /\ sequence_lengths = [k \in 1..Len(sv) |-> st[k].len]
            /\ sequence_hoco_lengths = [k \in 1..Len(sv) |-> st[k].hoco_len]
            /\ sequence_lengths_without_ns =
                  [k \in 1..Len(sv) |-> st[k].len_without_ns]
            /\ sequence_hoco_lengths_without_ns =
                  [k \in 1..Len(sv) |-> st[k].hoco_len_without_ns]
       /\ pc \in {"stats", "stats_hoco", "ok", "panicked"} =>
            /\ count = Len(sv)
            /\ out[1] = Line("", "# records", "", Len(sv))

C8_Witness ==
    /\ pc = "stats"
    /\ Len(consumed) = 3
    /\ Len(filter_ids) >= 2
    /\ Len(Survivors(consumed)) = 2
    /\ sequence_lengths = <<2, 0>>

\* C9: Nx at percentile 0 is the maximum of the distribution; Nx at percentile
\* 100 is its minimum, or else the element with which the running total
\* first reaches the whole sum.
C9_Percentile0And100 ==
    nx_st.pc = "returned" =>
        /\ required_covered_bases = AdditionalPercentile(sum, 0).v =>
              nx_st.ret = MaxOf(lengths)
        /\ required_covered_bases = AdditionalPercentile(sum, 100).v =>
              \/ nx_st.ret = MinOf(lengths)
              \/ /\ Prefix(lengths, nx_st.i) = sum
                 /\ Prefix(lengths, nx_st.i) - nx_st.ret < sum

C9_Witness ==
    /\ nx_st.pc = "returned"
    /\ required_covered_bases = AdditionalPercentile(sum, 100).v
    /\ sum > 0
    /\ nx_st.i >= 2
    /\ nx_st.ret # MinOf(lengths)

\* C10: at every step of the scan ns <= len and hoco_ns <= hoco_len, so the
\* final subtractions do not underflow; the result has hoco_len <= len,
\* len_without_ns <= len, hoco_len_without_ns <= hoco_len, and its four
\* fields are all 0 exactly when the sequence is empty.
C10_CountersBounded ==
    /\ scan.ns <= scan.len
    /\ scan.hoco_ns <= scan.hoco_len
    /\ seq_pc = "done" =>
         /\ stats.hoco_len <= stats.len
         /\ stats.len_without_ns <= stats.len
         /\ stats.hoco_len_without_ns <= stats.hoco_len
         /\ stats.len_without_ns >= 0
         /\ stats.hoco_len_without_ns >= 0
         /\ (stats = ZeroStatistics) <=> (sequence = <<>>)

C10_Witness ==
    /\ seq_pc = "done"
    /\ stats.hoco_len < stats.len
    /\ stats.len_without_ns < stats.len
    /\ stats.hoco_len_without_ns < stats.hoco_len
    /\ stats.hoco_len_without_ns > 0
    /\ \E k \in 1..Len(sequence) : sequence[k] = LineBreak

====
